---- MODULE Spec2Model ----
(***************************************************************************)
(* A model of the AST viewer: the row projector of src/astviewer.py        *)
(* (add_node / _fill_ast_tree_widget) and the main window of               *)
(* src/astviewer/main.py (__init__, open_file, close_file, _load_file,     *)
(* _update_widgets, highlight_node).                                       *)
(*                                                                         *)
(* Python strings that are only compared or concatenated are TLA+ strings; *)
(* strings that the code takes apart (str.split, int) are sequences of     *)
(* one-character strings.                                                  *)
(***************************************************************************)
EXTENDS Integers, Sequences, FiniteSets, TLC

VARIABLES
    file_name,      \* self._file_name
    source_code,    \* self._source_code
    mode,           \* self._mode
    editor,         \* the text held by self.editor
    title,          \* the window title
    ast_tree,       \* self.ast_tree: the sequence of its top-level rows
    log,            \* the calls the last handler made to its collaborators
    disk,           \* the files the window can be asked to open
    args,           \* the arguments the constructor was called with
    syntax_tree,    \* the parsed tree handed to the projector
    highlight_str,  \* the text of the current row's highlight column
    selection,      \* what highlight_node handed to editor.select_text
    current_item,   \* the path of the tree's current row, <<>> when it has none
    position,       \* the (line, column) last double-clicked in the editor
    span,           \* the position span of the current row, <<>> when unknown
    constructed     \* whether __init__ has run

vars == <<file_name, source_code, mode, editor, title, ast_tree, log, disk,
          args, syntax_tree, highlight_str, selection, current_item, position,
          span, constructed>>

-----------------------------------------------------------------------------
(* Bounds *)

MaxLen == 3         \* longest list of the generated parse trees
MaxStrLen == 7      \* longest highlight text tried on highlight_node
MaxLine == 11       \* largest line number of a generated span
MaxCol == 10        \* largest column of a generated span

-----------------------------------------------------------------------------
(* Python values.  An ast.AST node is [kind |-> "AST", cls, attrs, pos]; a  *)
(* list or tuple is [kind |-> "list" | "tuple", elems]; the leaves are      *)
(* [kind |-> "int", n], [kind |-> "str", s] and [kind |-> "NoneType"].      *)

NoPos == <<>>

AST(cls, attrs, pos) == [kind |-> "AST", cls |-> cls, attrs |-> attrs, pos |-> pos]
ListVal(elems) == [kind |-> "list", elems |-> elems]
TupleVal(elems) == [kind |-> "tuple", elems |-> elems]
IntVal(n) == [kind |-> "int", n |-> n]
StrVal(s) == [kind |-> "str", s |-> s]
None == [kind |-> "NoneType"]

NoAttrs == [f \in {} |-> None]

\* node._fields: the declared field order of the node classes (Python 2.7 _ast)
_fields(cls) ==
    CASE cls = "Module"      -> <<"body">>
      [] cls = "Interactive" -> <<"body">>
      [] cls = "Expression"  -> <<"body">>
      [] cls = "Assign"      -> <<"targets", "value">>
      [] cls = "Expr"        -> <<"value">>
      [] cls = "Name"        -> <<"id", "ctx">>
      [] cls = "Num"         -> <<"n">>
      [] cls = "Str"         -> <<"s">>
      [] OTHER               -> <<>>

\* a mutant: the fields in reverse declaration order
iter_fields_reversed(node) ==
    LET present == SelectSeq(_fields(node.cls), LAMBDA f : f \in DOMAIN node.attrs)
        n == Len(present)
    IN  [i \in 1..n |-> <<present[n + 1 - i], node.attrs[present[n + 1 - i]]>>]

\* ast.iter_fields(node): (name, value) for each field of node._fields that
\* is present on the node, in that order
iter_fields(node) ==
    LET present == SelectSeq(_fields(node.cls), LAMBDA f : f \in DOMAIN node.attrs)
    IN  [i \in 1..Len(present) |-> <<present[i], node.attrs[present[i]]>>]

\* class_name(obj): obj.__class__.__name__
class_name(obj) == IF obj.kind = "AST" THEN obj.cls ELSE obj.kind

-----------------------------------------------------------------------------
(* Text conversions *)

Digits == <<"0", "1", "2", "3", "4", "5", "6", "7", "8", "9">>

RECURSIVE DecNat(_)
DecNat(n) == IF n < 10 THEN <<Digits[n + 1]>>
             ELSE Append(DecNat(n \div 10), Digits[(n % 10) + 1])

\* the characters of "{:d}".format(n)
DecChars(n) == IF n < 0 THEN <<"-">> \o DecNat(0 - n) ELSE DecNat(n)

RECURSIVE Join(_)
Join(chars) == IF chars = <<>> THEN "" ELSE Head(chars) \o Join(Tail(chars))

\* "{:d}".format(n) and repr(n) of an int
Dec(n) == Join(DecChars(n))

\* a mutant: str(obj) in place of repr(obj), which drops the quotes
repr_as_str(obj) ==
    CASE obj.kind = "int"      -> Dec(obj.n)
      [] obj.kind = "str"      -> obj.s
      [] obj.kind = "NoneType" -> "None"

\* repr(obj) of a leaf value (the strings modelled hold no quote, backslash
\* or non-printable character)
repr(obj) ==
    CASE obj.kind = "int"      -> Dec(obj.n)
      [] obj.kind = "str"      -> "'" \o obj.s \o "'"
      [] obj.kind = "NoneType" -> "None"

-----------------------------------------------------------------------------
(* The projector of src/astviewer.py.  A row (QTreeWidgetItem) is           *)
(* [node, field, cls, value, children]: its four column texts and its child *)
(* items in the order they were created.                                    *)

Row(node_str, field_label, cls, value_str, children) ==
    [node |-> node_str, field |-> field_label, cls |-> cls,
     value |-> value_str, children |-> children]

\* a mutant: elements numbered from one
elem_label_from_one(field_label, idx) == field_label \o "[" \o Dec(idx + 1) \o "]"

\* "{}[{:d}]".format(field_label, idx)
elem_label(field_label, idx) == field_label \o "[" \o Dec(idx) \o "]"

RECURSIVE add_node(_, _)
add_node(ast_node, field_label) ==
    IF ast_node.kind = "AST"
    THEN LET kv == iter_fields(ast_node)
         IN  Row(field_label \o " = " \o class_name(ast_node), field_label,
                 class_name(ast_node), "",
                 [i \in 1..Len(kv) |-> add_node(kv[i][2], kv[i][1])])
    ELSE IF ast_node.kind \in {"list", "tuple"}
    THEN Row(field_label \o " = " \o class_name(ast_node), field_label,
             class_name(ast_node), "",
             [i \in 1..Len(ast_node.elems) |->
                 add_node(ast_node.elems[i], elem_label(field_label, i - 1))])
    ELSE Row(field_label \o " = " \o repr(ast_node), field_label,
             class_name(ast_node), repr(ast_node), <<>>)

\* a mutant: the widget is not cleared before the new root is added
fill_no_clear(rows, tree, name) ==
    Append(rows, add_node(tree, "\"" \o name \o "\""))

\* self.ast_tree.clear(); add_node(syntax_tree, self.ast_tree, '"{}"'.format(name))
fill(rows, tree, name) ==
    LET cleared == <<>>
    IN  Append(cleared, add_node(tree, "\"" \o name \o "\""))

-----------------------------------------------------------------------------
(* The trees the projector is applied to: the Python 2.7 parse trees of     *)
(* modules of at most MaxLen statements, each a pass, an expression         *)
(* statement or an assignment to at most MaxLen targets, and a few trees    *)
(* built by hand that hold tuples.                                          *)

SeqsUpTo(S, n) == UNION {[1..k -> S] : k \in 0..n}

NameNode(id, ctx) ==
    AST("Name", [f \in {"id", "ctx"} |->
                    IF f = "id" THEN StrVal(id) ELSE AST(ctx, NoAttrs, NoPos)], NoPos)
NumNode(n) == AST("Num", [f \in {"n"} |-> IntVal(n)], NoPos)
StrNode(s) == AST("Str", [f \in {"s"} |-> StrVal(s)], NoPos)
AssignNode(targets, value) ==
    AST("Assign", [f \in {"targets", "value"} |->
                      IF f = "targets" THEN targets ELSE value], NoPos)
ExprNode(value) == AST("Expr", [f \in {"value"} |-> value], NoPos)
PassNode == AST("Pass", NoAttrs, NoPos)
BodyNode(cls, body) == AST(cls, [f \in {"body"} |-> body], NoPos)

GenExprs == {NameNode("x", "Load"), NumNode(1), StrNode("")}
GenTargets == {ListVal(t) : t \in SeqsUpTo({NameNode("x", "Store")}, MaxLen) \ {<<>>}}
GenStmts ==
    {PassNode} \cup {ExprNode(e) : e \in GenExprs}
    \cup {AssignNode(t, v) : t \in GenTargets, v \in {NumNode(1), NameNode("x", "Load")}}
ParseTrees == {BodyNode("Module", ListVal(b)) : b \in SeqsUpTo(GenStmts, MaxLen)}

TupleTrees ==
    {BodyNode("Module", TupleVal(<<>>)),
     BodyNode("Module", TupleVal(<<IntVal(1), StrVal("a"), None>>)),
     BodyNode("Module", ListVal(<<AssignNode(TupleVal(<<NameNode("x", "Store"),
                                                        NameNode("y", "Store"),
                                                        NameNode("z", "Store")>>),
                                             TupleVal(<<>>))>>))}

ProjInputs == ParseTrees \cup TupleTrees

FileNames == {"a.py", "b.py"}

-----------------------------------------------------------------------------
(* The projector applied to one tree (SpecProj).                            *)

NoLineCol == <<>>      \* Python's None where a (line, column) pair is expected
NoSelection == [raised |-> FALSE, from_line_col |-> NoLineCol, to_line_col |-> NoLineCol]

InitProj ==
    /\ syntax_tree \in ProjInputs
    /\ file_name \in FileNames
    /\ ast_tree = <<>>
    /\ source_code = ""
    /\ mode = "exec"
    /\ editor = ""
    /\ title = ""
    /\ log = <<>>
    /\ disk = <<>>
    /\ args = <<>>
    /\ highlight_str = <<>>
    /\ selection = NoSelection
    /\ current_item = <<>>
    /\ position = <<>>
    /\ span = <<>>
    /\ constructed = TRUE

\* lines 222-225 of _fill_ast_tree_widget, on the tree ast.parse returned
FillTree ==
    /\ ast_tree' = fill(ast_tree, syntax_tree, file_name)
    /\ UNCHANGED <<file_name, source_code, mode, editor, title, log, disk,
                   args, syntax_tree, highlight_str, selection, current_item,
                   position, span, constructed>>

NextProj == FillTree

SpecProj == InitProj /\ [][NextProj]_vars

-----------------------------------------------------------------------------
(* Properties of the projector *)

IsComposite(obj) == obj.kind \in {"AST", "list", "tuple"}

\* the objects below a composite object, in declaration or element order
SubObjects(obj) ==
    IF obj.kind = "AST"
    THEN [i \in 1..Len(_fields(obj.cls)) |-> obj.attrs[_fields(obj.cls)[i]]]
    ELSE obj.elems

RECURSIVE RowsOf(_)
RowsOf(row) ==
    {row} \cup UNION {RowsOf(row.children[i]) : i \in DOMAIN row.children}

Filled == Len(ast_tree) = 1

RECURSIVE LeafOrComposite(_, _)
LeafOrComposite(obj, row) ==
    IF IsComposite(obj)
    THEN /\ row.value = ""
         /\ Len(row.children) = Len(SubObjects(obj))
         /\ \A i \in DOMAIN row.children :
                LeafOrComposite(SubObjects(obj)[i], row.children[i])
    ELSE /\ row.value # ""
         /\ row.children = <<>>

\* C1: every row the projector produces for a tree is a leaf row with a
\* non-empty value and no children, or a composite row (AST node, list or
\* tuple) with an empty value; no row has children and a non-empty value.
C1_LeafOrComposite ==
    ast_tree # <<>> =>
        /\ Filled
        /\ LeafOrComposite(syntax_tree, ast_tree[1])
        /\ \A r \in RowsOf(ast_tree[1]) : ~(r.children # <<>> /\ r.value # "")

C1_Witness ==
    /\ Filled
    /\ \E r \in RowsOf(ast_tree[1]) :
          r.cls = "str" /\ r.value = "''" /\ r.children = <<>>
    /\ \E r \in RowsOf(ast_tree[1]) :
          r.cls = "Assign" /\ r.value = "" /\ Len(r.children) = 2
    /\ \E r \in RowsOf(ast_tree[1]) :
          r.cls = "list" /\ r.value = "" /\ Len(r.children) = MaxLen

RECURSIVE InOrder(_, _)
InOrder(obj, row) ==
    /\ row.cls = class_name(obj)
    /\ IF obj.kind = "AST"
       THEN /\ [i \in DOMAIN row.children |-> row.children[i].field] = _fields(obj.cls)
            /\ \A i \in DOMAIN row.children :
                   InOrder(obj.attrs[_fields(obj.cls)[i]], row.children[i])
       ELSE IF obj.kind \in {"list", "tuple"}
       THEN /\ Len(row.children) = Len(obj.elems)
            /\ \A i \in DOMAIN row.children : InOrder(obj.elems[i], row.children[i])
       ELSE row.children = <<>> /\ row.value = repr(obj)

\* C2: the children of every row are in the field-declaration order of the
\* node (AST nodes) or in element order (sequences), and projecting the tree
\* again leaves the same rows in the same order.
C2_OrderAndDeterminism ==
    /\ [](ast_tree # <<>> => Filled /\ InOrder(syntax_tree, ast_tree[1]))
    /\ [][(ast_tree # <<>> /\ syntax_tree' = syntax_tree /\ file_name' = file_name)
            => ast_tree' = ast_tree]_vars

C2_Witness ==
    /\ Filled
    /\ \E r \in RowsOf(ast_tree[1]) :
          /\ r.cls = "Assign"
          /\ [i \in DOMAIN r.children |-> r.children[i].field] = <<"targets", "value">>
    /\ \E r \in RowsOf(ast_tree[1]) :
          /\ r.cls = "list" /\ r.field = "body"
          /\ [i \in DOMAIN r.children |-> r.children[i].cls] = <<"Pass", "Expr", "Assign">>

IndexText == <<"[0]", "[1]", "[2]", "[3]", "[4]", "[5]">>

RECURSIVE SequenceRows(_, _, _)
SequenceRows(obj, row, label) ==
    /\ row.field = label
    /\ IF obj.kind \in {"list", "tuple"}
       THEN /\ row.cls = obj.kind
            /\ row.value = ""
            /\ Len(row.children) = Len(obj.elems)
            /\ \A i \in DOMAIN row.children :
                   /\ row.children[i].field = label \o IndexText[i]
                   /\ SequenceRows(obj.elems[i], row.children[i], label \o IndexText[i])
       ELSE IF obj.kind = "AST"
       THEN /\ Len(row.children) = Len(_fields(obj.cls))
            /\ \A i \in DOMAIN row.children :
                   SequenceRows(obj.attrs[_fields(obj.cls)[i]], row.children[i],
                                _fields(obj.cls)[i])
       ELSE TRUE

\* C3: a list or tuple in field f with n >= 0 elements gives one composite
\* row whose class is the container's class name, with an empty value and
\* exactly n children labelled f[0] .. f[n-1]; an empty sequence gives a
\* composite row with no children, never a leaf row.
C3_SequenceRows ==
    ast_tree # <<>> =>
        /\ Filled
        /\ SequenceRows(syntax_tree, ast_tree[1], "\"" \o file_name \o "\"")

C3_Witness ==
    /\ Filled
    /\ \E r \in RowsOf(ast_tree[1]) :
          /\ r.cls = "tuple" /\ r.field = "targets"
          /\ [i \in DOMAIN r.children |-> r.children[i].field]
                = <<"targets[0]", "targets[1]", "targets[2]">>
    /\ \E r \in RowsOf(ast_tree[1]) :
          r.cls = "tuple" /\ r.field = "value" /\ r.children = <<>> /\ r.value = ""

-----------------------------------------------------------------------------
(* highlight_node of src/astviewer/main.py.  The text of the highlight      *)
(* column is a sequence of characters.                                      *)

Whitespace == {" ", "\t", "\n"}

RECURSIVE lstrip(_)
lstrip(s) == IF s # <<>> /\ Head(s) \in Whitespace THEN lstrip(Tail(s)) ELSE s

RECURSIVE rstrip(_)
rstrip(s) == IF s # <<>> /\ s[Len(s)] \in Whitespace
             THEN rstrip(SubSeq(s, 1, Len(s) - 1)) ELSE s

\* the digits of the argument of int(): surrounding whitespace and one sign dropped
IntDigits(s) ==
    LET t == rstrip(lstrip(s))
    IN  IF t # <<>> /\ Head(t) \in {"+", "-"} THEN Tail(t) ELSE t

DigitSet == {Digits[i] : i \in DOMAIN Digits}

\* whether int(s) returns rather than raising ValueError
IsInt(s) ==
    /\ IntDigits(s) # <<>>
    /\ \A i \in DOMAIN IntDigits(s) : IntDigits(s)[i] \in DigitSet

DigitVal(c) == (CHOOSE i \in DOMAIN Digits : Digits[i] = c) - 1

RECURSIVE NatOf(_)
NatOf(ds) == IF ds = <<>> THEN 0
             ELSE 10 * NatOf(SubSeq(ds, 1, Len(ds) - 1)) + DigitVal(ds[Len(ds)])

\* int(s), for s with IsInt(s)
int(s) ==
    LET t == rstrip(lstrip(s))
    IN  IF Head(t) = "-" THEN 0 - NatOf(IntDigits(s)) ELSE NatOf(IntDigits(s))

\* s.split(":")
RECURSIVE split(_)
split(s) ==
    IF s = <<>> THEN << <<>> >>
    ELSE IF Head(s) = ":" THEN << <<>> >> \o split(Tail(s))
    ELSE LET rest == split(Tail(s))
         IN  << <<Head(s)>> \o Head(rest) >> \o Tail(rest)

\* try: (int(line_str), int(col_str)) except ValueError: None
line_col(line_str, col_str) ==
    IF IsInt(line_str) /\ IsInt(col_str) THEN <<int(line_str), int(col_str)>>
    ELSE NoLineCol

Selected(from_line_col, to_line_col) ==
    [raised |-> FALSE, from_line_col |-> from_line_col, to_line_col |-> to_line_col]

\* the unpacking of a split that has not four parts raises ValueError
Raised == [raised |-> TRUE, from_line_col |-> NoLineCol, to_line_col |-> NoLineCol]

\* a mutant: the end column read from the start column's text
highlight_node_from_col(has_item, text) ==
    IF ~has_item THEN Selected(<<0, 0>>, <<0, 0>>)
    ELSE LET parts == split(text)
         IN  IF Len(parts) # 4 THEN Raised
             ELSE Selected(line_col(parts[1], parts[2]), line_col(parts[3], parts[2]))

\* highlight_node(current_item, _): the arguments it hands to
\* editor.select_text, or the exception it raises
highlight_node(has_item, text) ==
    IF ~has_item THEN Selected(<<0, 0>>, <<0, 0>>)
    ELSE LET parts == split(text)
         IN  IF Len(parts) # 4 THEN Raised
             ELSE Selected(line_col(parts[1], parts[2]), line_col(parts[3], parts[4]))

\* the span of a row without position
Sentinel == <<0, 0, 0, 0>>

\* the text of the highlight column: "{sl}:{sc}:{el}:{ec}"
highlight_text(sp) ==
    DecChars(sp[1]) \o <<":">> \o DecChars(sp[2]) \o <<":">>
        \o DecChars(sp[3]) \o <<":">> \o DecChars(sp[4])

HLAlphabet == {"0", "1", ":", "x", "-"}
HLTexts == SeqsUpTo(HLAlphabet, MaxStrLen)
Lines == 0..MaxLine
Cols == -1..MaxCol
Spans == (Lines \X Cols \X Lines \X Cols) \ {Sentinel}

\* highlight_node applied to one row (SpecHL): the row's highlight text is
\* any text, or the text of a span; or there is no current row
InitHL ==
    /\ \/ highlight_str \in HLTexts /\ span = <<>> /\ current_item = <<1>>
       \/ span \in Spans /\ highlight_str = highlight_text(span) /\ current_item = <<1>>
       \/ highlight_str = <<>> /\ span = <<>> /\ current_item = <<>>
    /\ selection = NoSelection
    /\ log = <<>>
    /\ syntax_tree = None
    /\ file_name = ""
    /\ ast_tree = <<>>
    /\ source_code = ""
    /\ mode = "exec"
    /\ editor = ""
    /\ title = ""
    /\ disk = <<>>
    /\ args = <<>>
    /\ position = <<>>
    /\ constructed = TRUE

HighlightCurrent ==
    /\ log = <<>>
    /\ selection' = highlight_node(current_item # <<>>, highlight_str)
    /\ log' = IF selection'.raised THEN << <<"raise", "ValueError">> >>
              ELSE << <<"editor.select_text">> >>
    /\ UNCHANGED <<file_name, source_code, mode, editor, title, ast_tree, disk,
                   args, syntax_tree, highlight_str, current_item, position,
                   span, constructed>>

NextHL == HighlightCurrent

SpecHL == InitHL /\ [][NextHL]_vars

-----------------------------------------------------------------------------
(* The external parser, ast.parse(source, filename, mode), on the texts the *)
(* window is given: its tree, with the position of every node that has one, *)
(* or its SyntaxError.                                                      *)

Texts == {"", "x = 1", "1", "def f(:"}

At(node, pos) == [node EXCEPT !.pos = pos]

Stmts(source) ==
    CASE source = "x = 1" ->
            << At(AssignNode(ListVal(<< At(NameNode("x", "Store"), <<1, 0, 1, 1>>) >>),
                             At(NumNode(1), <<1, 4, 1, 5>>)),
                  <<1, 0, 1, 5>>) >>
      [] source = "1" ->
            << At(ExprNode(At(NumNode(1), <<1, 0, 1, 1>>)), <<1, 0, 1, 1>>) >>
      [] OTHER -> <<>>

Parsed(tree) == [ok |-> TRUE, tree |-> tree, msg |-> ""]
SyntaxError(filename) ==
    [ok |-> FALSE, tree |-> None, msg |-> "invalid syntax (" \o filename \o ", line 1)"]

ast_parse(source, filename, m) ==
    IF source = "def f(:" THEN SyntaxError(filename)
    ELSE IF m = "exec" THEN Parsed(BodyNode("Module", ListVal(Stmts(source))))
    ELSE IF m = "single"
    THEN IF source = "" THEN SyntaxError(filename)
         ELSE Parsed(BodyNode("Interactive", ListVal(Stmts(source))))
    ELSE IF source = "1"
    THEN Parsed(BodyNode("Expression", At(NumNode(1), <<1, 0, 1, 1>>)))
    ELSE SyntaxError(filename)

-----------------------------------------------------------------------------
(* The tree widget of the main window (astviewer/tree.py): populate and     *)
(* select_node.                                                             *)

span_of(obj) == IF obj.kind = "AST" /\ obj.pos # NoPos THEN obj.pos ELSE Sentinel

\* one row per node, field and element, with its span and highlight text
RECURSIVE populate_node(_, _)
populate_node(ast_node, field_label) ==
    LET value_str == IF IsComposite(ast_node) THEN "" ELSE repr(ast_node)
        shown == IF IsComposite(ast_node) THEN class_name(ast_node) ELSE value_str
        kv == iter_fields(ast_node)
        children ==
            IF ast_node.kind = "AST"
            THEN [i \in 1..Len(kv) |-> populate_node(kv[i][2], kv[i][1])]
            ELSE IF ast_node.kind \in {"list", "tuple"}
            THEN [i \in 1..Len(ast_node.elems) |->
                     populate_node(ast_node.elems[i], elem_label(field_label, i - 1))]
            ELSE <<>>
    IN  [node |-> field_label \o " = " \o shown, field |-> field_label,
         cls |-> class_name(ast_node), value |-> value_str,
         span |-> span_of(ast_node), highlight |-> highlight_text(span_of(ast_node)),
         children |-> children]

\* populate(syntax_tree, root_label): the rows of the tree, built from scratch
populate(tree, root_label) == << populate_node(tree, "\"" \o root_label \o "\"") >>

\* a <= b for (line, column) pairs: line major, column minor
NotAfter(a, b) == a[1] < b[1] \/ (a[1] = b[1] /\ a[2] <= b[2])

Contains(sp, point) ==
    /\ NotAfter(<<sp[1], sp[2]>>, point)
    /\ NotAfter(point, <<sp[3], sp[4]>>)

SetMin(S) == CHOOSE x \in S : \A y \in S : x <= y

\* the search from a row: into the first child whose span contains the
\* point, until no child qualifies
RECURSIVE find_item(_, _, _)
find_item(row, path, point) ==
    LET hits == {i \in DOMAIN row.children : Contains(row.children[i].span, point)}
    IN  IF hits = {} THEN path
        ELSE find_item(row.children[SetMin(hits)], Append(path, SetMin(hits)), point)

RECURSIVE PathsOf(_, _)
PathsOf(row, path) ==
    {path} \cup UNION {PathsOf(row.children[i], Append(path, i)) : i \in DOMAIN row.children}

\* the paths of all rows of the widget
Paths(rows) == UNION {PathsOf(rows[i], <<i>>) : i \in DOMAIN rows}

RECURSIVE RowBelow(_, _)
RowBelow(row, path) ==
    IF path = <<>> THEN row ELSE RowBelow(row.children[Head(path)], Tail(path))

RowAt(rows, path) == RowBelow(rows[Head(path)], Tail(path))

-----------------------------------------------------------------------------
(* The main window of src/astviewer/main.py.  A handler works on the record *)
(* of the window's fields and widgets and logs its calls.                   *)

PROGRAM_NAME == "astviewer"
DEBUGGING == FALSE
valid_modes == {"exec", "eval", "single"}

Unreadable == "<unreadable>"    \* a file QFile.open fails on
Disks == [FileNames -> Texts \cup {Unreadable}]

Emit(s, event) == [s EXCEPT !.log = Append(@, event)]

\* the window at the start of a handler
Window ==
    [file_name |-> file_name, source_code |-> source_code, editor |-> editor,
     title |-> title, ast_tree |-> ast_tree, current_item |-> current_item,
     selection |-> selection, log |-> <<>>]

\* the rows of the widget are replaced; a current row is lost, which emits
\* currentItemChanged(None, previous) to highlight_node
set_rows(s, rows) ==
    IF s.current_item # <<>>
    THEN [Emit(s, <<"editor.select_text">>) EXCEPT
             !.ast_tree = rows, !.current_item = <<>>,
             !.selection = highlight_node(FALSE, <<>>)]
    ELSE [s EXCEPT !.ast_tree = rows]

\* _load_file(file_name): the fields are set only when the file opens
_load_file(s, name) ==
    IF disk[name] # Unreadable
    THEN [Emit(s, <<"QFile.open", name>>) EXCEPT
             !.file_name = name, !.source_code = disk[name]]
    ELSE Emit(Emit(s, <<"QFile.open", name>>),
              <<"QMessageBox.warning", "Unable to open file: ", name>>)

\* a mutant: the tree is cleared when the parse fails
_update_widgets_clear_on_error(s, m) ==
    LET s1 == [Emit(Emit(s, <<"setWindowTitle">>), <<"editor.setPlainText">>) EXCEPT
                  !.title = PROGRAM_NAME \o " - " \o s.file_name,
                  !.editor = s.source_code]
        s2 == Emit(s1, <<"ast.parse", s.source_code, s.file_name, m>>)
        result == ast_parse(s.source_code, s.file_name, m)
    IN  IF s.source_code = "" THEN set_rows(Emit(s1, <<"ast_tree.clear">>), <<>>)
        ELSE IF ~result.ok
        THEN set_rows(Emit(s2, <<"QMessageBox.warning", "Unable to parse file: ",
                                 s.file_name, result.msg>>), <<>>)
        ELSE set_rows(Emit(s2, <<"ast_tree.populate", s.file_name>>),
                      populate(result.tree, s.file_name))

\* _update_widgets(), with self._mode = m
_update_widgets(s, m) ==
    LET s1 == [Emit(Emit(s, <<"setWindowTitle">>), <<"editor.setPlainText">>) EXCEPT
                  !.title = PROGRAM_NAME \o " - " \o s.file_name,
                  !.editor = s.source_code]
        s2 == Emit(s1, <<"ast.parse", s.source_code, s.file_name, m>>)
        result == ast_parse(s.source_code, s.file_name, m)
    IN  IF s.source_code = "" THEN set_rows(Emit(s1, <<"ast_tree.clear">>), <<>>)
        ELSE IF ~result.ok
        THEN IF DEBUGGING THEN Emit(s2, <<"raise", result.msg>>)
             ELSE Emit(s2, <<"QMessageBox.warning", "Unable to parse file: ",
                             s.file_name, result.msg>>)
        ELSE set_rows(Emit(s2, <<"ast_tree.populate", s.file_name>>),
                      populate(result.tree, s.file_name))

\* the window's fields and widgets after a handler
Commit(s) ==
    /\ file_name' = s.file_name
    /\ source_code' = s.source_code
    /\ editor' = s.editor
    /\ title' = s.title
    /\ ast_tree' = s.ast_tree
    /\ current_item' = s.current_item
    /\ selection' = s.selection
    /\ log' = s.log
    /\ highlight_str' = IF s.current_item = <<>> THEN <<>>
                        ELSE RowAt(s.ast_tree, s.current_item).highlight
    /\ span' = IF s.current_item = <<>> THEN <<>>
               ELSE RowAt(s.ast_tree, s.current_item).span

Init ==
    /\ disk \in Disks
    /\ constructed = FALSE
    /\ args = [file_name |-> "", source_code |-> "", mode |-> "exec"]
    /\ file_name = ""
    /\ source_code = ""
    /\ mode = "exec"
    /\ editor = ""
    /\ title = ""
    /\ ast_tree = <<>>
    /\ log = <<>>
    /\ syntax_tree = None
    /\ highlight_str = <<>>
    /\ selection = NoSelection
    /\ current_item = <<>>
    /\ position = <<>>
    /\ span = <<>>

\* AstViewer(file_name, source_code, mode)
__init__(fn, sc, m) ==
    /\ ~constructed
    /\ m \in valid_modes
    /\ LET s0 == [file_name |-> "<source>", source_code |-> sc, editor |-> "",
                  title |-> PROGRAM_NAME, ast_tree |-> <<>>, current_item |-> <<>>,
                  selection |-> NoSelection, log |-> << <<"setWindowTitle">> >>]
           s1 == IF fn # "" /\ sc # ""
                 THEN Emit(s0, <<"logger.warning", "source_code ignored">>)
                 ELSE s0
           s2 == IF fn # "" THEN _load_file(s1, fn) ELSE s1
       IN  Commit(_update_widgets(s2, m))
    /\ mode' = m
    /\ args' = [file_name |-> fn, source_code |-> sc, mode |-> m]
    /\ constructed' = TRUE
    /\ UNCHANGED <<disk, syntax_tree, position>>

\* AstViewer(mode=m) with a mode that is not valid: ValueError, no window
bad_mode ==
    /\ ~constructed
    /\ log = <<>>
    /\ log' = << <<"raise", "ValueError">> >>
    /\ UNCHANGED <<file_name, source_code, mode, editor, title, ast_tree, disk,
                   args, syntax_tree, highlight_str, selection, current_item,
                   position, span, constructed>>

\* open_file(given); picked is what the file dialog returns when it is shown
open_file(given, picked) ==
    /\ constructed
    /\ LET s0 == IF given = "" THEN Emit(Window, <<"getopenfilename", picked>>)
                 ELSE Window
           name == IF given = "" THEN picked ELSE given
           s1 == IF name # "" THEN _load_file(s0, name) ELSE s0
       IN  Commit(_update_widgets(s1, mode))
    /\ UNCHANGED <<mode, disk, args, syntax_tree, position, constructed>>

close_file ==
    /\ constructed
    /\ LET s0 == [Emit(Window, <<"editor.clear">>) EXCEPT
                     !.file_name = "", !.source_code = "", !.editor = ""]
           s1 == set_rows(Emit(s0, <<"ast_tree.clear">>), <<>>)
       IN  Commit([Emit(s1, <<"setWindowTitle">>) EXCEPT !.title = PROGRAM_NAME])
    /\ UNCHANGED <<mode, disk, args, syntax_tree, position, constructed>>

\* the current row becomes the row at path, which emits currentItemChanged
\* to highlight_node when it is another row than before
set_current(s, path) ==
    IF path = s.current_item THEN s
    ELSE LET sel == highlight_node(TRUE, RowAt(s.ast_tree, path).highlight)
         IN  [Emit(s, IF sel.raised THEN <<"raise", "ValueError">>
                      ELSE <<"editor.select_text">>) EXCEPT
                 !.current_item = path, !.selection = sel]

\* the user makes the row at path the current row
currentItemChanged(path) ==
    /\ constructed
    /\ path \in Paths(ast_tree)
    /\ path # current_item
    /\ Commit(set_current(Window, path))
    /\ UNCHANGED <<mode, disk, args, syntax_tree, position, constructed>>

\* editor.sigDoubleClicked(line, column) -> ast_tree.select_node
select_node(line, column) ==
    /\ constructed
    /\ ast_tree # <<>>
    /\ position' = <<line, column>>
    /\ Commit(set_current(Emit(Window, <<"select_node">>),
                          find_item(ast_tree[1], <<1>>, <<line, column>>)))
    /\ UNCHANGED <<mode, disk, args, syntax_tree, constructed>>

\* the places double-clicked: the start of line 1, the literal of "x = 1",
\* and a place after the end of every text
ClickPoints == {<<1, 0>>, <<1, 4>>, <<2, 0>>}

Next ==
    \/ \E fn \in {""} \cup FileNames, sc \in Texts, m \in valid_modes : __init__(fn, sc, m)
    \/ bad_mode
    \/ \E given \in {""} \cup FileNames, picked \in {""} \cup FileNames :
          (given # "" => picked = "") /\ open_file(given, picked)
    \/ close_file
    \/ \E path \in Paths(ast_tree) : currentItemChanged(path)
    \/ \E point \in ClickPoints : select_node(point[1], point[2])

Spec == Init /\ [][Next]_vars

-----------------------------------------------------------------------------
(* The window of src/astviewer.py (SpecLegacy): the same fields, rebuilt by *)
(* _fill_ast_tree_widget.                                                   *)

\* _fill_ast_tree_widget(): a SyntaxError of ast.parse leaves the method
\* before the widget is touched
_fill_ast_tree_widget(s) ==
    LET s1 == Emit(Emit(s, <<"_fill_ast_tree_widget">>),
                   <<"ast.parse", s.source_code, s.file_name, "exec">>)
        result == ast_parse(s.source_code, s.file_name, "exec")
    IN  IF ~result.ok THEN Emit(s1, <<"raise", result.msg>>)
        ELSE [Emit(Emit(s1, <<"ast_tree.clear">>), <<"add_node">>) EXCEPT
                 !.ast_tree = fill(s.ast_tree, result.tree, s.file_name)]

\* open_file(given) of src/astviewer.py
legacy_open(s, given, picked) ==
    LET s0 == IF given = "" THEN Emit(s, <<"getOpenFileName", picked>>) ELSE s
        name == IF given = "" THEN picked ELSE given
        s1 == IF name = "" THEN s0
              ELSE IF disk[name] # Unreadable
              THEN [Emit(Emit(s0, <<"QFile.open", name>>), <<"editor.setPlainText">>)
                       EXCEPT !.file_name = name, !.source_code = disk[name],
                              !.editor = disk[name]]
              ELSE [Emit(Emit(s0, <<"QFile.open", name>>),
                         <<"logger.warn", "Unable to open: ", name>>)
                       EXCEPT !.file_name = name]
    IN  _fill_ast_tree_widget(s1)

\* AstViewer(file_name) of src/astviewer.py
legacy__init__(fn, picked) ==
    /\ ~constructed
    /\ Commit(legacy_open([file_name |-> "", source_code |-> "", editor |-> "",
                           title |-> PROGRAM_NAME, ast_tree |-> <<>>,
                           current_item |-> <<>>, selection |-> NoSelection,
                           log |-> << <<"setWindowTitle">> >>], fn, picked))
    /\ args' = [file_name |-> fn, source_code |-> "", mode |-> "exec"]
    /\ constructed' = TRUE
    /\ UNCHANGED <<mode, disk, syntax_tree, position>>

legacy_open_file(given, picked) ==
    /\ constructed
    /\ Commit(legacy_open(Window, given, picked))
    /\ UNCHANGED <<mode, disk, args, syntax_tree, position, constructed>>

new_file ==
    /\ constructed
    /\ Commit(_fill_ast_tree_widget(
           [Emit(Window, <<"editor.clear">>) EXCEPT
               !.file_name = "", !.source_code = "", !.editor = ""]))
    /\ UNCHANGED <<mode, disk, args, syntax_tree, position, constructed>>

NextLegacy ==
    \/ \E fn \in {""} \cup FileNames, picked \in {""} \cup FileNames :
          (fn # "" => picked = "") /\ legacy__init__(fn, picked)
    \/ \E given \in {""} \cup FileNames, picked \in {""} \cup FileNames :
          (given # "" => picked = "") /\ legacy_open_file(given, picked)
    \/ new_file

SpecLegacy == Init /\ [][NextLegacy]_vars

-----------------------------------------------------------------------------
(* Properties of the main window *)

Events == {log[i] : i \in DOMAIN log}
Called(name) == \E e \in Events : e[1] = name

\* the parse step of the last handler failed
ParseFailed ==
    \E e \in Events : e[1] = "ast.parse" /\ ~ast_parse(e[2], e[3], e[4]).ok

\* the last handler showed a warning that names the file and gives the
\* parser's message
ParseFailureReported ==
    \E i \in DOMAIN log :
        /\ log[i][1] = "ast.parse"
        /\ i < Len(log)
        /\ log[i + 1] = <<"QMessageBox.warning", "Unable to parse file: ", log[i][3],
                          ast_parse(log[i][2], log[i][3], log[i][4]).msg>>

\* C4: when the parse step of a rebuild (_update_widgets) fails, populate is
\* not invoked, the failure is caught and reported with the file name and
\* the parser's message, and the tree holds the same rows as before the
\* rebuild.
C4_ParseFailureKeepsTree ==
    /\ [](ParseFailed =>
            /\ ~Called("ast_tree.populate")
            /\ ~Called("raise")
            /\ ParseFailureReported)
    /\ [][ParseFailed' => ast_tree' = ast_tree]_vars

C4_Witness ==
    /\ ParseFailed
    /\ ParseFailureReported
    /\ source_code = "def f(:"
    /\ editor = "def f(:"
    /\ ast_tree # <<>>
    /\ ast_tree[1].cls = "Module"

\* the events of the last handler after it warned that a file cannot be opened
AfterOpenFailure ==
    {log[j] : j \in {j \in DOMAIN log :
        \E i \in 1..(j - 1) :
            log[i][1] = "QMessageBox.warning" /\ log[i][2] = "Unable to open file: "}}

OpenFailed ==
    \E e \in Events : e[1] = "QMessageBox.warning" /\ e[2] = "Unable to open file: "

\* C6: when open_file or the constructor is given a file that cannot be
\* opened, the failure is reported and no rebuild is attempted: the parser
\* and the projector do not run, and the tree, the editor and the window
\* title are not rewritten.
C6_NoRebuildAfterOpenFailure ==
    OpenFailed =>
        \A e \in AfterOpenFailure :
            e[1] \notin {"ast.parse", "ast_tree.populate", "ast_tree.clear",
                        "editor.setPlainText", "setWindowTitle"}

\* the constructor was given a file name and a source, both non-empty
BothGiven == Called("logger.warning")

\* C8: constructed with a file name and a source, the source argument is
\* ignored: the text shown in the editor and parsed into the tree is the
\* source argument only where the file holds that very text.
C8_FileNameOverrides ==
    BothGiven =>
        \/ disk[args.file_name] = args.source_code
        \/ /\ editor # args.source_code
           /\ \A e \in Events : e[1] = "ast.parse" => e[2] # args.source_code

\* C5: a rebuild with an empty source string (after construction with no
\* source, after new_file or close_file, after a cancelled open) skips the
\* parser and the projector, and the tree shown is empty.
C5_EmptySourceSkipsProjection ==
    (constructed /\ source_code = "") =>
        /\ ast_tree = <<>>
        /\ ~Called("ast.parse")
        /\ ~Called("add_node")
        /\ ~Called("ast_tree.populate")

\* the rows whose span contains the place double-clicked
Containing ==
    {p \in Paths(ast_tree) : Contains(RowAt(ast_tree, p).span, position)}

\* C9: the position lookup returns the deepest row whose span contains the
\* point, or the root when no row's span contains it.
C9_DeepestContaining ==
    Called("select_node") =>
        IF Containing = {} THEN current_item = <<1>>
        ELSE /\ current_item \in Containing
             /\ \A p \in Containing : Len(p) <= Len(current_item)

-----------------------------------------------------------------------------
(* Properties of highlight_node *)

Acted == log # <<>>

FourInts(text) ==
    /\ Len(split(text)) = 4
    /\ \A i \in 1..4 : IsInt(split(text)[i])

\* the endpoint made of parts i and j of the text, as the claim has it
Endpoint(text, i, j) ==
    LET parts == split(text)
    IN  IF Len(parts) >= j /\ IsInt(parts[i]) /\ IsInt(parts[j])
        THEN <<int(parts[i]), int(parts[j])>>
        ELSE NoLineCol

\* C7: for a row whose highlight text does not parse into four integers,
\* highlight_node completes without raising, passes each endpoint whose two
\* parts are integers to the editor with those values, and passes an
\* endpoint that fails to parse as absent.
C7_NoRaise ==
    (Acted /\ current_item # <<>> /\ ~FourInts(highlight_str)) =>
        /\ ~selection.raised
        /\ selection.from_line_col = Endpoint(highlight_str, 1, 2)
        /\ selection.to_line_col = Endpoint(highlight_str, 3, 4)

\* C10: the highlight text "sl:sc:el:ec" of a row with a non-sentinel span
\* is parsed by highlight_node into from-endpoint (sl, sc) and to-endpoint
\* (el, ec).
C10_RoundTrip ==
    (Acted /\ span # <<>> /\ span # Sentinel) =>
        selection = Selected(<<span[1], span[2]>>, <<span[3], span[4]>>)

C10_Witness ==
    /\ Acted
    /\ span # <<>> /\ span # Sentinel
    /\ span[1] >= 10 /\ span[2] = -1 /\ span[3] > span[1] /\ span[4] >= 10
    /\ selection = Selected(<<span[1], -1>>, <<span[3], span[4]>>)

-----------------------------------------------------------------------------
(* The projection of the source "x = 1" (window of src/astviewer.py, which  *)
(* always parses in exec mode)                                              *)

\* the last handler projected the parse of "x = 1"
ProjectedXEq1 ==
    /\ constructed
    /\ source_code = "x = 1"
    /\ Called("add_node")

\* the rows of Module(body=[Assign(targets=[Name('x', Store())], value=Num(1))])
\* under a root labelled with the quoted name
RowsOfXEq1(name) ==
    Row("\"" \o name \o "\" = Module", "\"" \o name \o "\"", "Module", "", <<
        Row("body = list", "body", "list", "", <<
            Row("body[0] = Assign", "body[0]", "Assign", "", <<
                Row("targets = list", "targets", "list", "", <<
                    Row("targets[0] = Name", "targets[0]", "Name", "", <<
                        Row("id = 'x'", "id", "str", "'x'", <<>>),
                        Row("ctx = Store", "ctx", "Store", "", <<>>) >>) >>),
                Row("value = Num", "value", "Num", "", <<
                    Row("n = 1", "n", "int", "1", <<>>) >>) >>) >>) >>)

\* C11 (as stated): projecting the parse of "x = 1" in exec mode yields one
\* root row with exactly one child, that child is the assignment statement
\* row, and the assignment row has a target field row and a value field row
\* whose value string is "1".
C11_ExampleOne ==
    ProjectedXEq1 =>
        /\ Len(ast_tree) = 1
        /\ Len(ast_tree[1].children) = 1
        /\ LET stmt == ast_tree[1].children[1]
               kids == {stmt.children[i] : i \in DOMAIN stmt.children}
           IN  /\ stmt.cls = "Assign"
               /\ \E r \in kids : r.field \in {"target", "targets"}
               /\ \E r \in kids : r.field = "value" /\ r.value = "1"

\* C11 (amended): projecting the parse of "x = 1" in exec mode yields exactly
\* one root row, of class Module; its only child is the list row of the field
\* body, whose only child body[0] is the assignment statement row; the
\* assignment row has, in this order, the list row of the field targets
\* (holding targets[0], the Name row of x) and the row of the field value,
\* which is a composite Num row with an empty value string whose only child,
\* the leaf row of the field n, has the value string "1".
C11_ExampleOneRows ==
    ProjectedXEq1 => ast_tree = << RowsOfXEq1(file_name) >>

\* "x = 1" has been projected over an earlier projection, and the value
\* string "1" sits two rows below the assignment row
C11_Witness ==
    /\ ProjectedXEq1
    /\ file_name = "b.py"
    /\ Len(ast_tree) = 1
    /\ LET stmt == ast_tree[1].children[1].children[1]
       IN  /\ stmt.cls = "Assign"
           /\ stmt.children[2].field = "value"
           /\ stmt.children[2].value = ""
           /\ stmt.children[2].children[1].value = "1"

-----------------------------------------------------------------------------
(* The tree against the text in the editor (window of src/astviewer/main.py) *)

\* the names a root row can carry
RootLabels == FileNames \cup {"<source>", ""}

\* the rows are those of the parse of the given text, under some root label
ProjectionOf(rows, text) ==
    \E name \in RootLabels :
        LET result == ast_parse(text, name, mode)
        IN  result.ok /\ rows = populate(result.tree, name)

\* C12: after any sequence of constructions, open_file calls (readable file,
\* unreadable file, cancelled dialog), close_file calls and rebuilds whose
\* parse succeeds or fails, the tree is empty or is the projection of the
\* parse of the text the editor shows; it never shows rows of another source.
C12_TreeOfEditorText ==
    constructed => (ast_tree = <<>> \/ ProjectionOf(ast_tree, editor))

====
